---- MODULE Spec2Model ----
(***************************************************************************)
(* Model of the caching and rate-limiting layer of the CyberCell API,      *)
(* src/src/api/src/config/redis.config.ts: the CyberCellCache facade, the  *)
(* rate limiter checkRateLimit and the Redis store they share.             *)
(*                                                                         *)
(* The store is a map from keys to entries (a string value and a remaining *)
(* time-to-live).  Every awaited store command of a method is one step of  *)
(* the calling process, so that the commands of concurrent calls           *)
(* interleave as they do on the shared connection.  A store command may    *)
(* fail (connection lost, command timeout); the methods have no handler,   *)
(* so the failure is the outcome of the call.  cacheMiddleware sends its   *)
(* SETEX without awaiting it: the command waits in `pend`, and because the *)
(* one connection serves commands in the order they were sent, it runs     *)
(* before any command sent after it.                                       *)
(***************************************************************************)
EXTENDS Integers, Sequences, FiniteSets, TLC

\* ------------------------------------------------------------------ bounds
NumProcs == 2
MaxLimit == 2
MaxForeign == 1
MaxRequests == 2

Procs == 1..NumProcs
\* client identifiers handed to checkRateLimit
Ips == {"10.0.0.1"}
\* a second client, for the specification that studies two identifiers
AllIps == Ips \cup {"10.0.0.2"}
Limits == 1..MaxLimit
\* calls answered per rate-limit window before the model stops issuing more
MaxCalls == MaxLimit + 2

\* ------------------------------------------------------------------ TTL table
TTL_REAL_TIME == 30
TTL_DASHBOARD == 60
TTL_ALERTS == 300
TTL_INVESTIGATIONS == 600
TTL_SYSTEM_STATS == 300
TTL_ML_PREDICTIONS == 180
TTL_NETWORK_DATA == 60
TTL_SESSION == 3600
TTL_RATE_LIMIT == 60

\* the clock advances in steps of the shortest tier
TickStep == TTL_REAL_TIME

\* ------------------------------------------------------------------ keys
\* ids of the per-entity categories (alert id, investigation id, user id)
EntityIds == {"1", "2"}

\* a property the object does not have, an argument the caller left out, or
\* a value that is undefined
Undefined == "<undefined>"
\* a template literal `${id}` embeds the text of the value: the id itself,
\* and the word undefined for an id that was left out
Embed(id) == IF id = Undefined THEN "undefined" ELSE id

ACTIVE_ALERTS == "cybercell:alerts:active"
CRITICAL_ALERTS == "cybercell:alerts:critical"
ALERT_DETAILS(id) == "cybercell:alert:" \o Embed(id)
INCIDENT_DETAILS(id) == "cybercell:incident:" \o Embed(id)
DASHBOARD_METRICS == "cybercell:dashboard:metrics"
ACTIVE_THREATS_COUNT == "cybercell:metrics:active_threats"
REVENUE_AT_RISK == "cybercell:metrics:revenue_risk"
NETWORK_HEALTH == "cybercell:metrics:network_health"
SLA_STATUS == "cybercell:metrics:sla_status"
FRAUD_TIMELINE == "cybercell:fraud:timeline"
FRAUD_STATS == "cybercell:fraud:statistics"
MODEL_CONFIDENCE(alertId) == "cybercell:ml:confidence:" \o Embed(alertId)
CORRELATION_RESULTS == "cybercell:correlations:active"
INVESTIGATION_DETAILS(id) == "cybercell:investigation:" \o Embed(id)
NETWORK_TRAFFIC == "cybercell:network:traffic"
SYSTEM_COMPONENTS == "cybercell:system:components"
COMPONENT_STATUS(name) == "cybercell:system:component:" \o Embed(name)
USER_SESSION(userId) == "cybercell:session:" \o Embed(userId)
USER_PERMISSIONS(userId) == "cybercell:permissions:" \o Embed(userId)
RATE_LIMIT_Shared(ip) == "cybercell:ratelimit:" \o "10.0.0.1"
RATE_LIMIT(ip) == "cybercell:ratelimit:" \o Embed(ip)
API_CALLS(endpoint) == "cybercell:api:calls:" \o Embed(endpoint)

\* the categories of CACHE_KEYS: the ones whose key is a fixed string, and the
\* per-entity ones whose key embeds an id
FixedCategories ==
    {"ACTIVE_ALERTS", "CRITICAL_ALERTS", "INCIDENTS", "DASHBOARD_METRICS",
     "ACTIVE_THREATS_COUNT", "REVENUE_AT_RISK", "NETWORK_HEALTH", "SLA_STATUS",
     "FRAUD_TIMELINE", "FRAUD_STATS", "SIMBOX_ALERTS", "SIMSWAP_ALERTS",
     "DDOS_ALERTS", "ML_PREDICTIONS", "CORRELATION_RESULTS", "INVESTIGATIONS",
     "CORRELATION_ENGINE", "NETWORK_TRAFFIC", "TRAFFIC_BASELINE",
     "NETWORK_ANOMALIES", "SYSTEM_COMPONENTS", "SYSTEM_UPTIME"}
EntityCategories ==
    {"ALERT_DETAILS", "INCIDENT_DETAILS", "MODEL_CONFIDENCE",
     "INVESTIGATION_DETAILS", "COMPONENT_STATUS", "USER_SESSION",
     "USER_PERMISSIONS", "RATE_LIMIT", "API_CALLS"}
\* CACHE_KEYS[category], applied to the id where the entry is a function;
\* the keys no method of the facade uses are written out here
CACHE_KEYS(category, id) ==
    CASE category = "ACTIVE_ALERTS" -> ACTIVE_ALERTS
      [] category = "CRITICAL_ALERTS" -> CRITICAL_ALERTS
      [] category = "ALERT_DETAILS" -> ALERT_DETAILS(id)
      [] category = "INCIDENTS" -> "cybercell:incidents:all"
      [] category = "INCIDENT_DETAILS" -> INCIDENT_DETAILS(id)
      [] category = "DASHBOARD_METRICS" -> DASHBOARD_METRICS
      [] category = "ACTIVE_THREATS_COUNT" -> ACTIVE_THREATS_COUNT
      [] category = "REVENUE_AT_RISK" -> REVENUE_AT_RISK
      [] category = "NETWORK_HEALTH" -> NETWORK_HEALTH
      [] category = "SLA_STATUS" -> SLA_STATUS
      [] category = "FRAUD_TIMELINE" -> FRAUD_TIMELINE
      [] category = "FRAUD_STATS" -> FRAUD_STATS
      [] category = "SIMBOX_ALERTS" -> "cybercell:fraud:simbox"
      [] category = "SIMSWAP_ALERTS" -> "cybercell:fraud:simswap"
      [] category = "DDOS_ALERTS" -> "cybercell:fraud:ddos"
      [] category = "ML_PREDICTIONS" -> "cybercell:ml:predictions"
      [] category = "MODEL_CONFIDENCE" -> MODEL_CONFIDENCE(id)
      [] category = "CORRELATION_RESULTS" -> CORRELATION_RESULTS
      [] category = "INVESTIGATIONS" -> "cybercell:investigations:active"
      [] category = "INVESTIGATION_DETAILS" -> INVESTIGATION_DETAILS(id)
      [] category = "CORRELATION_ENGINE" -> "cybercell:correlation:engine_status"
      [] category = "NETWORK_TRAFFIC" -> NETWORK_TRAFFIC
      [] category = "TRAFFIC_BASELINE" -> "cybercell:network:baseline"
      [] category = "NETWORK_ANOMALIES" -> "cybercell:network:anomalies"
      [] category = "SYSTEM_COMPONENTS" -> SYSTEM_COMPONENTS
      [] category = "COMPONENT_STATUS" -> COMPONENT_STATUS(id)
      [] category = "SYSTEM_UPTIME" -> "cybercell:system:uptime"
      [] category = "USER_SESSION" -> USER_SESSION(id)
      [] category = "USER_PERMISSIONS" -> USER_PERMISSIONS(id)
      [] category = "RATE_LIMIT" -> RATE_LIMIT(id)
      [] category = "API_CALLS" -> API_CALLS(id)
\* ids handed to the per-entity categories: an ordinary id, the empty
\* string, an id with a colon, an id that prolongs a category name, the
\* word undefined, and no id at all
KeyIds == {"1", "", "a:b", "s:active", "undefined", Undefined}
\* the (category, id) pairs keys are built for; a fixed category takes no id
KeyInputs ==
    {<<c, Undefined>> : c \in FixedCategories} \cup (EntityCategories \X KeyIds)

\* requests seen by cacheMiddleware: method and originalUrl (path and query)
Methods == {"GET", "POST"}
Urls == {"/alerts", "/alerts?page=2"}
\* the requests the model issues: two differ in the method only, two in the
\* query string only
Requests == {<<"GET", "/alerts">>, <<"POST", "/alerts">>, <<"GET", "/alerts?page=2">>}
\* line 373: `cybercell:http:${req.method}:${req.originalUrl}`
HTTP_KEY_MethodBlind(method, originalUrl) == "cybercell:http:GET:" \o originalUrl
HTTP_KEY(method, originalUrl) == "cybercell:http:" \o method \o ":" \o originalUrl

RateKeys == {RATE_LIMIT(ip) : ip \in AllIps}
FacadeKeys ==
    {ACTIVE_ALERTS, CRITICAL_ALERTS, DASHBOARD_METRICS, FRAUD_TIMELINE, FRAUD_STATS,
     CORRELATION_RESULTS, NETWORK_TRAFFIC, SYSTEM_COMPONENTS}
    \cup {MODEL_CONFIDENCE(i) : i \in EntityIds}
    \cup {INVESTIGATION_DETAILS(i) : i \in EntityIds}
    \cup {USER_SESSION(i) : i \in EntityIds}
\* the keys the per-entity methods build when the caller leaves the id out
OmittedIdKeys ==
    {MODEL_CONFIDENCE(Undefined), INVESTIGATION_DETAILS(Undefined), USER_SESSION(Undefined)}
MetricKeys == {ACTIVE_THREATS_COUNT, REVENUE_AT_RISK, NETWORK_HEALTH, SLA_STATUS}
HttpKeys == {HTTP_KEY(r[1], r[2]) : r \in Requests}
AllKeys == RateKeys \cup FacadeKeys \cup OmittedIdKeys \cup MetricKeys \cup HttpKeys

\* ------------------------------------------------------------------ stored strings
\* A stored value is a string; the model keeps what the string denotes:
\* the decimal text of an integer, the JSON text of a value, the empty
\* string, or text that is not JSON.
IntStr(n) == [t |-> "int", n |-> n, v |-> <<>>]
JsonStr(v) == [t |-> "json", n |-> 0, v |-> v]
EmptyStr == [t |-> "empty", n |-> 0, v |-> <<>>]
TextStr == [t |-> "text", n |-> 0, v |-> <<>>]

\* JSON.stringify: the JSON text of a value
ToStringOf(v) == TextStr
Stringify(v) == JsonStr(v)
\* JSON.stringify of an object leaves out the properties that are undefined
Defined(o) == [f \in {g \in DOMAIN o : o[g] # Undefined} |-> o[f]]
StringifyObject(o) == JsonStr(Defined(o))
StringifyList(list) == JsonStr([i \in 1..Len(list) |-> Defined(list[i])])
\* JSON.parse: a number text and a JSON text parse, other text is a SyntaxError
Parsable(val) == val.t \in {"int", "json"}
Parse(val) == IF val.t = "int" THEN val.n ELSE val.v

\* a key without a time-to-live (Redis TTL -1)
NoTTL == -1

Absent == [has |-> FALSE, val |-> EmptyStr, ttl |-> 0]
Entry(val, ttl) == [has |-> TRUE, val |-> val, ttl |-> ttl]

\* redis.get: the string, or null for a missing key
Null == [nil |-> TRUE, val |-> EmptyStr]
Get(s, key) == IF s[key].has THEN [nil |-> FALSE, val |-> s[key].val] ELSE Null

\* JavaScript truthiness of `cached`: null and "" are falsy
Truthy(cur) == ~cur.nil /\ cur.val.t # "empty"

\* redis.setex: value and expiry in one command
SetWithoutExpiry(s, key, ttl, val) == [s EXCEPT ![key] = Entry(val, NoTTL)]
Setex(s, key, ttl, val) == [s EXCEPT ![key] = Entry(val, ttl)]

\* redis INCR: a missing key counts from 0 and is created without expiry;
\* an existing key keeps its time-to-live
Incr(s, key) ==
    IF s[key].has
    THEN [s EXCEPT ![key].val = IntStr(s[key].val.n + 1)]
    ELSE [s EXCEPT ![key] = Entry(IntStr(1), NoTTL)]

\* redis EXPIRE: sets the time-to-live of an existing key
Expire(s, key, ttl) ==
    IF s[key].has THEN [s EXCEPT ![key].ttl = ttl] ELSE s

\* one clock step: every time-to-live runs down, lapsed keys disappear
Lapses(e, d) == e.has /\ e.ttl # NoTTL /\ e.ttl <= d
Age(s, d) ==
    [k \in DOMAIN s |->
        IF ~s[k].has \/ s[k].ttl = NoTTL THEN s[k]
        ELSE IF s[k].ttl <= d THEN Absent
        ELSE [s[k] EXCEPT !.ttl = s[k].ttl - d]]

\* ------------------------------------------------------------------ state
VARIABLES
    store,      \* the Redis keyspace
    pc,         \* where each process is inside its current call
    rl,         \* checkRateLimit locals of each process: ip, limit, current
    caa,        \* cacheActiveAlerts local of each process: alertsData
    ret,        \* outcome of the most recently completed call
    win,        \* history per ip: the calls of the current counter window
    age,        \* history per key: seconds since the key was last written
    al,         \* history of the writes to the two alert keys
    mw,         \* cacheMiddleware locals of each request in flight
    pend,       \* SETEX commands sent by cacheMiddleware and not yet run
    mwh,        \* history of the requests cacheMiddleware has answered
    cc,         \* clearCache locals of each process: pattern, keys
    cch,        \* history of the most recently completed clearCache call
    dm,         \* cacheDashboardMetrics local of each process: metrics
    lw,         \* history: the facade write that last changed its key
    due         \* history per key: seconds left of the tier of its last write,
                \* 0 during the clock step in which the tier ran out

mwVars == <<mw, pend, mwh>>
ccVars == <<cc, cch>>
vars == <<store, pc, rl, caa, ret, win, age, al, mw, pend, mwh, cc, cch, dm, lw, due>>

NoCall == [ip |-> "", limit |-> 0, current |-> Null]

\* Outcome of a call.  kind: "bool" (b holds it), "json" (v holds the one
\* parsed value), "null", "void", or "throw" with err naming what failed:
\* "store" for a rejected store command, "parse" for a SyntaxError.
NoRet == [op |-> "", kind |-> "none", err |-> "", b |-> FALSE, v |-> <<>>]
ReturnedBool(op, b) == [op |-> op, kind |-> "bool", err |-> "", b |-> b, v |-> <<>>]
ReturnedJson(op, x) == [op |-> op, kind |-> "json", err |-> "", b |-> FALSE, v |-> <<x>>]
ReturnedNull(op) == [op |-> op, kind |-> "null", err |-> "", b |-> FALSE, v |-> <<>>]
ReturnedVoid(op) == [op |-> op, kind |-> "void", err |-> "", b |-> FALSE, v |-> <<>>]
Thrown(op, err) == [op |-> op, kind |-> "throw", err |-> err, b |-> FALSE, v |-> <<>>]

\* History of one counter window: n calls answered, `allowed` of them with
\* true, `last` the latest answer, `limit` the limit the calls passed,
\* seq: no two calls overlapped, ok: no store command failed, same: every
\* call passed the same limit, left: seconds until one window length after
\* the key's creation, renewed: the window began when its predecessor lapsed.
FreshWin ==
    [n |-> 0, allowed |-> 0, last |-> FALSE, limit |-> 0,
     seq |-> TRUE, ok |-> TRUE, same |-> TRUE, left |-> 0, renewed |-> FALSE]

\* ages are not counted past the longest tier the claims measure
AgeCap == TTL_ALERTS
AgeCapOf(k) ==
    IF k \in HttpKeys \cup MetricKeys \cup {DASHBOARD_METRICS} THEN TTL_DASHBOARD
    ELSE AgeCap
Older(a, d, cap) == IF a + d >= cap THEN cap ELSE a + d

\* History of the alert keys: the most recently written active-alerts list,
\* the process whose call wrote it (0 when that call has ended in an error),
\* and sync: the latest write of the critical-alerts key and the latest
\* write of the active-alerts key were made by one and the same call.
NoAlertWrites == [lastActive |-> <<>>, by |-> 0, sync |-> FALSE]

\* A request answered by cacheMiddleware, as the next request for the same
\* key finds it.  has: it was answered while no other request for the key
\* was in flight, its lookup succeeded, and since then the entry neither
\* lapsed nor was changed from outside and no write of it failed.
NoPrev == [has |-> FALSE, body |-> <<>>, calls |-> 0, status |-> 0]

\* Locals of a request inside cacheMiddleware.  look: outcome of the lookup
\* ("hit", "miss", "error"), held: the store held an entry for the key
\* when the lookup ran, patched: res.json has been replaced, solo: no other
\* request for the key has been in flight together with this one, prev:
\* the request answered before this one began.
NoReq ==
    [method |-> "", url |-> "", key |-> "", ttl |-> 0, look |-> "", held |-> FALSE,
     patched |-> FALSE, solo |-> TRUE, prev |-> NoPrev]

\* The most recently answered request: its locals, the body the client got,
\* the body the lookup found (on a hit), how often the handler ran and the
\* status code of the response.
NoDone == [req |-> NoReq, body |-> <<>>, cached |-> <<>>, calls |-> 0, status |-> 0]

\* n: requests that have entered cacheMiddleware;
\* write: outcome of the most recently run SETEX of cacheMiddleware,
\* "none", "ok" or "rejected" (a rejected promise nobody handles).
NoRequests ==
    [n |-> 0, prev |-> [k \in HttpKeys |-> NoPrev], done |-> NoDone,
     write |-> "none"]

NoClear == [pattern |-> "", keys |-> {}]
\* pattern of a completed clearCache call and the number of keys its DEL
\* removed
NoCleared == [pattern |-> "", removed |-> 0]

NoWrite == [op |-> "", key |-> "", x |-> <<>>]
\* no tier is running for the key
NoDue == -1
Tier(k, ttl) == [due EXCEPT ![k] = ttl]
\* the latest facade write stays the latest change of its key
Kept(keys) == IF lw.key \in keys THEN NoWrite ELSE lw

Init ==
    /\ store = [k \in AllKeys |-> Absent]
    /\ pc = [p \in Procs |-> "idle"]
    /\ rl = [p \in Procs |-> NoCall]
    /\ caa = [p \in Procs |-> <<>>]
    /\ ret = NoRet
    /\ win = [ip \in AllIps |-> FreshWin]
    /\ age = [k \in AllKeys |-> AgeCapOf(k)]
    /\ al = NoAlertWrites
    /\ mw = [p \in Procs |-> NoReq]
    /\ pend = <<>>
    /\ mwh = NoRequests
    /\ cc = [p \in Procs |-> NoClear]
    /\ cch = NoCleared
    /\ dm = [p \in Procs |-> <<>>]
    /\ lw = NoWrite
    /\ due = [k \in AllKeys |-> NoDue]

\* ------------------------------------------------------------------ checkRateLimit
\* the counter as a number, 0 for a missing key
Count(s, ip) == IF s[RATE_LIMIT(ip)].has THEN s[RATE_LIMIT(ip)].val.n ELSE 0

\* parseInt(current): NaN for text that is not a number
IsInt(cur) == cur.val.t = "int"
ParseInt(cur) == cur.val.n

\* `current && parseInt(current) >= limit`
ExceededOffByOne(current, limit) ==
    Truthy(current) /\ IsInt(current) /\ ParseInt(current) > limit
Exceeded(current, limit) ==
    Truthy(current) /\ IsInt(current) /\ ParseInt(current) >= limit

\* redis.multi().incr(key).expire(key, TTL.RATE_LIMIT).exec()
MultiIncrOnly(s, key) == Incr(s, key)
MultiIncrExpire(s, key) == Expire(Incr(s, key), key, TTL_RATE_LIMIT)

\* the rejecting branch returns before any store command
RejectedCounts(s, key) == MultiIncrExpire(s, key)
Rejected(s, key) == s

InFlight(ip) == {q \in Procs : pc[q] = "multi" /\ rl[q].ip = ip}

Answered(w, b) ==
    [w EXCEPT !.n = @ + 1, !.allowed = IF b THEN @ + 1 ELSE @, !.last = b]
Failed(w) == [w EXCEPT !.ok = FALSE]

\* entry of a call: the limit it uses and whether it overlaps another call
Enter(w, ip, limit) ==
    [w EXCEPT !.limit = IF @ = 0 THEN limit ELSE @,
              !.same = @ /\ w.limit \in {0, limit},
              !.seq = @ /\ InFlight(ip) = {}]

\* lines 315-320: build the key, GET the counter, reject when the limit is reached
RateGet(p, ip, limit) ==
    /\ pc[p] = "idle"
    /\ win[ip].n + Cardinality(InFlight(ip)) < MaxCalls
    /\ \E up \in BOOLEAN :
        LET key == RATE_LIMIT(ip)
            current == Get(store, key)
            w == Enter(win[ip], ip, limit)
        IN  IF ~up
            THEN /\ ret' = Thrown("checkRateLimit", "store")
                 /\ win' = [win EXCEPT ![ip] = Failed(w)]
                 /\ UNCHANGED <<store, pc, rl>>
            ELSE IF Exceeded(current, limit)
            THEN /\ ret' = ReturnedBool("checkRateLimit", FALSE)
                 /\ store' = Rejected(store, key)
                 /\ win' = [win EXCEPT ![ip] = Answered(w, FALSE)]
                 /\ UNCHANGED <<pc, rl>>
            ELSE /\ pc' = [pc EXCEPT ![p] = "multi"]
                 /\ rl' = [rl EXCEPT ![p] = [ip |-> ip, limit |-> limit, current |-> current]]
                 /\ win' = [win EXCEPT ![ip] = w]
                 /\ UNCHANGED <<store, ret>>
    /\ UNCHANGED <<caa, age, al, mwVars, ccVars, dm, lw, due>>

\* lines 322-327: the MULTI transaction, then return true.  A failed
\* transaction either never ran or ran with its reply lost.
RateMulti(p) ==
    /\ pc[p] = "multi"
    /\ \E out \in {"ok", "fail", "lost"} :
        LET ip == rl[p].ip
            key == RATE_LIMIT(ip)
            w == IF out # "fail" /\ ~store[key].has
                 THEN [win[ip] EXCEPT !.left = TTL_RATE_LIMIT] ELSE win[ip]
        IN  /\ store' = IF out = "fail" THEN store ELSE MultiIncrExpire(store, key)
            /\ age' = IF out = "fail" THEN age ELSE [age EXCEPT ![key] = 0]
            /\ ret' = IF out = "ok" THEN ReturnedBool("checkRateLimit", TRUE)
                      ELSE Thrown("checkRateLimit", "store")
            /\ win' = [win EXCEPT ![ip] =
                         IF out = "ok" THEN Answered(w, TRUE) ELSE Failed(w)]
    /\ pc' = [pc EXCEPT ![p] = "idle"]
    /\ rl' = [rl EXCEPT ![p] = NoCall]
    /\ UNCHANGED <<caa, al, mwVars, ccVars, dm, lw, due>>

\* the window history starts over when the counter key lapses
WinAfterTick(ip, d) ==
    IF Lapses(store[RATE_LIMIT(ip)], d)
    THEN [FreshWin EXCEPT
            !.limit = IF InFlight(ip) = {} THEN 0
                      ELSE rl[CHOOSE q \in InFlight(ip) : TRUE].limit,
            !.seq = Cardinality(InFlight(ip)) <= 1,
            !.same = \A q1, q2 \in InFlight(ip) : rl[q1].limit = rl[q2].limit,
            !.renewed = TRUE]
    ELSE [win[ip] EXCEPT !.left = IF @ > d THEN @ - d ELSE 0]

\* d seconds pass
Tick(d) ==
    /\ store' = Age(store, d)
    /\ win' = [ip \in AllIps |-> WinAfterTick(ip, d)]
    /\ age' = [k \in AllKeys |-> Older(age[k], d, AgeCapOf(k))]
    /\ due' = [k \in AllKeys |->
                IF due[k] \in {NoDue, 0} THEN NoDue
                ELSE IF due[k] > d THEN due[k] - d ELSE 0]
    /\ lw' = Kept({k \in AllKeys : Lapses(store[k], d)})
    /\ mwh' = [mwh EXCEPT !.prev =
                 [k \in HttpKeys |-> IF Lapses(store[k], d) THEN NoPrev ELSE @[k]]]
    /\ UNCHANGED <<pc, rl, caa, ret, al, mw, pend, ccVars, dm>>

NextRate ==
    \/ \E p \in Procs, ip \in Ips, limit \in Limits : RateGet(p, ip, limit)
    \/ \E p \in Procs : RateMulti(p)
    \/ Tick(TickStep)

SpecRate == Init /\ [][NextRate]_vars

\* ------------------------------------------------------------------ alerts
\* a row of the alerts table as the callers hand it to cacheActiveAlerts
AlertRow(id, severity) ==
    [id |-> id, alert_number |-> "FR-2024-001", alert_type |-> "SIM-Box Operation",
     severity |-> severity, confidence_score |-> 95, status |-> "active",
     location |-> "Baku", assigned_to |-> "J.Smith", detection_time |-> "14:30"]

\* the lists of rows passed to cacheActiveAlerts
AlertLists ==
    {<<>>,
     <<AlertRow("1", "critical")>>,
     <<AlertRow("1", "critical"), AlertRow("2", "low")>>}

\* lines 140-150: alerts.map(alert => ({...}))
AlertData(alert) ==
    [id |-> alert.id, alertNumber |-> alert.alert_number, type |-> alert.alert_type,
     severity |-> alert.severity, confidence |-> alert.confidence_score,
     status |-> alert.status, location |-> alert.location,
     assignedTo |-> alert.assigned_to, detectionTime |-> alert.detection_time]
AlertsData(alerts) == [i \in 1..Len(alerts) |-> AlertData(alerts[i])]

\* line 155: alertsData.filter(alert => alert.severity === 'critical')
IsCritical(alert) == alert.severity = "critical"
CriticalAlertsUnfiltered(alertsData) == alertsData
CriticalAlerts(alertsData) == SelectSeq(alertsData, IsCritical)

\* line 152: redis.setex(ACTIVE_ALERTS, TTL.ALERTS, JSON.stringify(alertsData))
SetActive(s, alertsData) == Setex(s, ACTIVE_ALERTS, TTL_ALERTS, Stringify(alertsData))

\* line 156: redis.setex(CRITICAL_ALERTS, TTL.REAL_TIME, JSON.stringify(criticalAlerts))
SetCriticalAlertsTier(s, alertsData) ==
    Setex(s, CRITICAL_ALERTS, TTL_ALERTS, Stringify(CriticalAlerts(alertsData)))
SetCritical(s, alertsData) ==
    Setex(s, CRITICAL_ALERTS, TTL_REAL_TIME, Stringify(CriticalAlerts(alertsData)))

\* lines 139-152: map the rows, then the first SETEX.  A failed command
\* either never ran or ran with its reply lost; either way the call throws.
CacheActiveAlerts(p, alerts) ==
    /\ pc[p] = "idle"
    /\ \E out \in {"ok", "fail", "lost"} :
        LET alertsData == AlertsData(alerts)
        IN  /\ store' = IF out = "fail" THEN store ELSE SetActive(store, alertsData)
            /\ age' = IF out = "fail" THEN age ELSE [age EXCEPT ![ACTIVE_ALERTS] = 0]
            /\ due' = IF out = "fail" THEN due ELSE Tier(ACTIVE_ALERTS, TTL_ALERTS)
            /\ lw' = IF out = "fail" THEN lw ELSE Kept({ACTIVE_ALERTS})
            /\ al' = IF out = "fail" THEN al
                     ELSE [lastActive |-> alertsData,
                           by |-> IF out = "ok" THEN p ELSE 0,
                           sync |-> FALSE]
            /\ IF out = "ok"
               THEN /\ pc' = [pc EXCEPT ![p] = "critical"]
                    /\ caa' = [caa EXCEPT ![p] = alertsData]
                    /\ UNCHANGED ret
               ELSE /\ ret' = Thrown("cacheActiveAlerts", "store")
                    /\ UNCHANGED <<pc, caa>>
    /\ UNCHANGED <<rl, win, mwVars, ccVars, dm>>

\* lines 155-157: filter the critical alerts, the second SETEX, return
CacheCriticalAlerts(p) ==
    /\ pc[p] = "critical"
    /\ \E out \in {"ok", "fail", "lost"} :
        /\ store' = IF out = "fail" THEN store ELSE SetCritical(store, caa[p])
        /\ age' = IF out = "fail" THEN age ELSE [age EXCEPT ![CRITICAL_ALERTS] = 0]
        /\ due' = IF out = "fail" THEN due ELSE Tier(CRITICAL_ALERTS, TTL_REAL_TIME)
        /\ lw' = IF out = "fail" THEN lw ELSE Kept({CRITICAL_ALERTS})
        /\ al' = [al EXCEPT !.sync = IF out = "fail" THEN @ ELSE al.by = p,
                            !.by = IF @ = p THEN 0 ELSE @]
        /\ ret' = IF out = "ok" THEN ReturnedVoid("cacheActiveAlerts")
                  ELSE Thrown("cacheActiveAlerts", "store")
    /\ pc' = [pc EXCEPT ![p] = "idle"]
    /\ caa' = [caa EXCEPT ![p] = <<>>]
    /\ UNCHANGED <<rl, win, mwVars, ccVars, dm>>

\* ------------------------------------------------------------------ facade reads
\* `cached ? JSON.parse(cached) : absent`
ReadOr(op, s, key, absent) ==
    LET cached == Get(s, key)
    IN  IF ~Truthy(cached) THEN absent
        ELSE IF Parsable(cached.val) THEN ReturnedJson(op, Parse(cached.val))
        ELSE Thrown(op, "parse")

EmptyList(op) == ReturnedJson(op, <<>>)

getDashboardMetrics(s) ==
    ReadOr("getDashboardMetrics", s, DASHBOARD_METRICS, ReturnedNull("getDashboardMetrics"))
getActiveAlerts(s) ==
    ReadOr("getActiveAlerts", s, ACTIVE_ALERTS, EmptyList("getActiveAlerts"))
getCriticalAlerts(s) ==
    ReadOr("getCriticalAlerts", s, CRITICAL_ALERTS, EmptyList("getCriticalAlerts"))
getFraudStatistics(s) ==
    ReadOr("getFraudStatistics", s, FRAUD_STATS, ReturnedNull("getFraudStatistics"))
getFraudTimeline(s) ==
    ReadOr("getFraudTimeline", s, FRAUD_TIMELINE, EmptyList("getFraudTimeline"))
getNetworkMetrics(s) ==
    ReadOr("getNetworkMetrics", s, NETWORK_TRAFFIC, ReturnedNull("getNetworkMetrics"))
getMLPrediction(s, alertId) ==
    ReadOr("getMLPrediction", s, MODEL_CONFIDENCE(alertId), ReturnedNull("getMLPrediction"))
getCorrelationResults(s) ==
    ReadOr("getCorrelationResults", s, CORRELATION_RESULTS, EmptyList("getCorrelationResults"))
getSystemComponents(s) ==
    ReadOr("getSystemComponents", s, SYSTEM_COMPONENTS, EmptyList("getSystemComponents"))
getInvestigation(s, investigationId) ==
    ReadOr("getInvestigation", s, INVESTIGATION_DETAILS(investigationId),
           ReturnedNull("getInvestigation"))
getUserSession(s, userId) ==
    ReadOr("getUserSession", s, USER_SESSION(userId), ReturnedNull("getUserSession"))

\* one read method: the awaited GET either answers or rejects, and the
\* method has no handler for the rejection
FacadeRead(p, op, result) ==
    /\ pc[p] = "idle"
    /\ \E up \in BOOLEAN : ret' = IF up THEN result ELSE Thrown(op, "store")
    /\ UNCHANGED <<store, pc, rl, caa, win, age, al, mwVars, ccVars, dm, lw, due>>

GetDashboardMetrics(p) == FacadeRead(p, "getDashboardMetrics", getDashboardMetrics(store))
GetActiveAlerts(p) == FacadeRead(p, "getActiveAlerts", getActiveAlerts(store))
GetCriticalAlerts(p) == FacadeRead(p, "getCriticalAlerts", getCriticalAlerts(store))
GetFraudStatistics(p) == FacadeRead(p, "getFraudStatistics", getFraudStatistics(store))
GetFraudTimeline(p) == FacadeRead(p, "getFraudTimeline", getFraudTimeline(store))
GetNetworkMetrics(p) == FacadeRead(p, "getNetworkMetrics", getNetworkMetrics(store))
GetMLPrediction(p, alertId) ==
    FacadeRead(p, "getMLPrediction", getMLPrediction(store, alertId))
GetCorrelationResults(p) ==
    FacadeRead(p, "getCorrelationResults", getCorrelationResults(store))
GetSystemComponents(p) == FacadeRead(p, "getSystemComponents", getSystemComponents(store))
GetInvestigation(p, investigationId) ==
    FacadeRead(p, "getInvestigation", getInvestigation(store, investigationId))
GetUserSession(p, userId) ==
    FacadeRead(p, "getUserSession", getUserSession(store, userId))

ListReads ==
    {"getActiveAlerts", "getCriticalAlerts", "getFraudTimeline",
     "getCorrelationResults", "getSystemComponents"}
ObjectReads ==
    {"getDashboardMetrics", "getFraudStatistics", "getNetworkMetrics",
     "getMLPrediction", "getInvestigation", "getUserSession"}
ReadOps == ListReads \cup ObjectReads

\* what a read method returns on a cache miss
AbsentResult(op) == IF op \in ListReads THEN EmptyList(op) ELSE ReturnedNull(op)

\* ------------------------------------------------------------------ sessions
SessionData == {[role |-> "analyst"], [role |-> "admin"]}

\* lines 331-337: redis.setex(USER_SESSION(userId), TTL.SESSION, JSON.stringify(sessionData))
CacheUserSession(p, userId, sessionData) ==
    /\ pc[p] = "idle"
    /\ \E out \in {"ok", "fail", "lost"} :
        LET key == USER_SESSION(userId)
        IN  /\ store' = IF out = "fail" THEN store
                        ELSE Setex(store, key, TTL_SESSION, Stringify(sessionData))
            /\ age' = IF out = "fail" THEN age ELSE [age EXCEPT ![key] = 0]
            /\ due' = IF out = "fail" THEN due ELSE Tier(key, TTL_SESSION)
            /\ lw' = IF out = "fail" THEN lw
                      ELSE [op |-> "cacheUserSession", key |-> key, x |-> <<userId, sessionData>>]
            /\ ret' = IF out = "ok" THEN ReturnedVoid("cacheUserSession")
                      ELSE Thrown("cacheUserSession", "store")
    /\ UNCHANGED <<pc, rl, caa, win, al, mwVars, ccVars, dm>>

\* line 399 exports the raw client: code outside the facade can SET any text
\* under a facade key
Foreign(s) == {k \in DOMAIN s : s[k].has /\ s[k].val.t = "text"}
ForeignSet(key) ==
    /\ pend = <<>>
    /\ Cardinality(Foreign(store) \cup {key}) <= MaxForeign
    /\ store' = [store EXCEPT ![key] = Entry(TextStr, NoTTL)]
    /\ age' = [age EXCEPT ![key] = 0]
    /\ due' = Tier(key, NoDue)
    /\ lw' = Kept({key})
    /\ mwh' = [mwh EXCEPT !.prev =
                 [k \in HttpKeys |-> IF k = key THEN NoPrev ELSE @[k]]]
    /\ UNCHANGED <<pc, rl, caa, ret, win, al, mw, pend, ccVars, dm>>

\* ------------------------------------------------------------------ single-command writes
\* a write method whose one store command is an awaited SETEX
FacadeWrite(p, op, key, ttl, val, x) ==
    /\ pc[p] = "idle"
    /\ pend = <<>>
    /\ \E out \in {"ok", "fail", "lost"} :
        /\ store' = IF out = "fail" THEN store ELSE Setex(store, key, ttl, val)
        /\ age' = IF out = "fail" THEN age ELSE [age EXCEPT ![key] = 0]
        /\ due' = IF out = "fail" THEN due ELSE Tier(key, ttl)
        /\ lw' = IF out = "fail" THEN lw ELSE [op |-> op, key |-> key, x |-> <<x>>]
        /\ ret' = IF out = "ok" THEN ReturnedVoid(op) ELSE Thrown(op, "store")
    /\ UNCHANGED <<pc, rl, caa, win, al, mwVars, ccVars, dm>>

\* events of the fraud timeline as the callers hand them to cacheFraudTimeline
TimelineEvent ==
    [event_time |-> "14:30", event_type |-> "SIM-Box Alert",
     event_description |-> "Gateway flagged", has_warning |-> "true",
     is_correlation |-> Undefined]
Timelines == {<<>>, <<TimelineEvent>>}

\* lines 190-196: timeline.map(event => ({...}))
EventData(event) ==
    [time |-> event.event_time, type |-> event.event_type,
     description |-> event.event_description, hasWarning |-> event.has_warning,
     isCorrelation |-> event.is_correlation]
TimelineData(timeline) == [i \in 1..Len(timeline) |-> EventData(timeline[i])]

\* lines 189-199
CacheFraudTimeline(p, timeline) ==
    FacadeWrite(p, "cacheFraudTimeline", FRAUD_TIMELINE, TTL_REAL_TIME,
                StringifyList(TimelineData(timeline)), timeline)

\* rows of the investigations table as the callers hand them to
\* cacheInvestigation; the second has no evidence_collected
InvestigationRow(id, evidence) ==
    [investigation_id |-> id, title |-> "Coordinated SIM-Box + DDoS Campaign",
     campaign_id |-> "C-2024-001", confidence_level |-> "94", status |-> "active",
     correlation_confidence |-> "91", time_span_minutes |-> "47",
     major_alerts_count |-> "3", indicators_count |-> "12",
     lead_analyst |-> "J.Smith", evidence_collected |-> evidence]
Investigations == {InvestigationRow("1", "7"), InvestigationRow("2", Undefined)}

\* lines 287-299
InvestigationData(investigation) ==
    [id |-> investigation.investigation_id, title |-> investigation.title,
     campaignId |-> investigation.campaign_id,
     confidence |-> investigation.confidence_level, status |-> investigation.status,
     correlationConfidence |-> investigation.correlation_confidence,
     timeSpan |-> investigation.time_span_minutes,
     majorAlerts |-> investigation.major_alerts_count,
     indicators |-> investigation.indicators_count,
     leadAnalyst |-> investigation.lead_analyst,
     evidenceCollected |-> investigation.evidence_collected]

\* lines 286-306
CacheInvestigation(p, investigation) ==
    FacadeWrite(p, "cacheInvestigation",
                INVESTIGATION_DETAILS(investigation.investigation_id),
                TTL_INVESTIGATIONS, StringifyObject(InvestigationData(investigation)),
                investigation)

\* ------------------------------------------------------------------ dashboard metrics
\* A number is kept as its decimal text, which is also its JSON text and
\* the string the client sends for it.
\* `x || d`: undefined, 0, NaN and "" are falsy
Falsy(x) == x \in {Undefined, "0", "NaN", ""}
Or(x, d) == IF Falsy(x) THEN d ELSE x

\* the metrics objects handed to cacheDashboardMetrics: an empty object, one
\* that supplies the four fields, one that supplies them with no active
\* threat
Metrics(activeThreats, revenueAtRisk, networkHealth, slaStatus) ==
    [activeThreats |-> activeThreats, revenueAtRisk |-> revenueAtRisk,
     networkHealth |-> networkHealth, slaStatus |-> slaStatus]
MetricsObjects ==
    {Metrics(Undefined, Undefined, Undefined, Undefined),
     Metrics("5", "5000", "97.5", "99.9"),
     Metrics("0", "5000", "97.5", "99.9")}

\* new Date().toISOString(): the model has no calendar
Now == "2024-01-01T00:00:00.000Z"

\* lines 116-122
DashboardData(metrics) ==
    [activeThreats |-> Or(metrics.activeThreats, "23"),
     revenueAtRisk |-> Or(metrics.revenueAtRisk, "127450"),
     networkHealth |-> Or(metrics.networkHealth, "94.2"),
     slaStatus |-> Or(metrics.slaStatus, "99.1"),
     lastUpdated |-> Now]

\* lines 127-130: the four individual writes, in order
MetricKey(i) ==
    CASE i = 1 -> ACTIVE_THREATS_COUNT
      [] i = 2 -> REVENUE_AT_RISK
      [] i = 3 -> NETWORK_HEALTH
      [] OTHER -> SLA_STATUS
MetricValue(metrics, i) ==
    CASE i = 1 -> Or(metrics.activeThreats, "23")
      [] i = 2 -> Or(metrics.revenueAtRisk, "127450")
      [] i = 3 -> Or(metrics.networkHealth, "94.2")
      [] OTHER -> Or(metrics.slaStatus, "99.1")

\* lines 115-124: build data, the first SETEX
CacheDashboardMetrics(p, metrics) ==
    /\ pc[p] = "idle"
    /\ pend = <<>>
    /\ \E out \in {"ok", "fail", "lost"} :
        LET val == StringifyObject(DashboardData(metrics))
        IN  /\ store' = IF out = "fail" THEN store
                        ELSE Setex(store, DASHBOARD_METRICS, TTL_DASHBOARD, val)
            /\ age' = IF out = "fail" THEN age ELSE [age EXCEPT ![DASHBOARD_METRICS] = 0]
            /\ due' = IF out = "fail" THEN due ELSE Tier(DASHBOARD_METRICS, TTL_DASHBOARD)
            /\ lw' = IF out = "fail" THEN lw
                      ELSE [op |-> "cacheDashboardMetrics", key |-> DASHBOARD_METRICS,
                            x |-> <<metrics>>]
            /\ IF out = "ok"
               THEN /\ pc' = [pc EXCEPT ![p] = "metric"]
                    /\ dm' = [dm EXCEPT ![p] = <<metrics, 1>>]
                    /\ UNCHANGED ret
               ELSE /\ ret' = Thrown("cacheDashboardMetrics", "store")
                    /\ UNCHANGED <<pc, dm>>
    /\ UNCHANGED <<rl, caa, win, al, mwVars, ccVars>>

\* lines 127-131: the next individual SETEX; after the fourth the call returns
CacheMetric(p) ==
    /\ pc[p] = "metric"
    /\ pend = <<>>
    /\ \E out \in {"ok", "fail", "lost"} :
        LET i == dm[p][2]
            key == MetricKey(i)
            val == JsonStr(MetricValue(dm[p][1], i))
        IN  /\ store' = IF out = "fail" THEN store
                        ELSE Setex(store, key, TTL_DASHBOARD, val)
            /\ age' = IF out = "fail" THEN age ELSE [age EXCEPT ![key] = 0]
            /\ due' = IF out = "fail" THEN due ELSE Tier(key, TTL_DASHBOARD)
            /\ lw' = IF out = "fail" THEN lw ELSE Kept({key})
            /\ IF out = "ok" /\ i < 4
               THEN /\ dm' = [dm EXCEPT ![p] = <<dm[p][1], i + 1>>]
                    /\ UNCHANGED <<pc, ret>>
               ELSE /\ pc' = [pc EXCEPT ![p] = "idle"]
                    /\ dm' = [dm EXCEPT ![p] = <<>>]
                    /\ ret' = IF out = "ok" THEN ReturnedVoid("cacheDashboardMetrics")
                              ELSE Thrown("cacheDashboardMetrics", "store")
    /\ UNCHANGED <<rl, caa, win, al, mwVars, ccVars>>

\* ------------------------------------------------------------------ statistics, network, predictions
\* the stats object handed to cacheFraudStatistics: one without any field
StatsObjects ==
    {[simBox |-> Undefined, networkAttacks |-> Undefined, simSwap |-> Undefined,
      billing |-> Undefined, socialEng |-> Undefined]}
\* a nested object is kept as its JSON text
Counts(alerts, incidents) ==
    "{\"alerts\":" \o alerts \o ",\"incidents\":" \o incidents \o "}"
\* lines 171-178
FraudData(stats) ==
    [simBox |-> Or(stats.simBox, Counts("8", "73")),
     networkAttacks |-> Or(stats.networkAttacks, Counts("2", "43")),
     simSwap |-> Or(stats.simSwap, Counts("3", "28")),
     billing |-> Or(stats.billing, Counts("5", "11")),
     socialEng |-> Or(stats.socialEng, Counts("2", "0")),
     lastUpdated |-> Now]
\* lines 170-181
CacheFraudStatistics(p, stats) ==
    FacadeWrite(p, "cacheFraudStatistics", FRAUD_STATS, TTL_SYSTEM_STATS,
                StringifyObject(FraudData(stats)), stats)

\* the metrics handed to cacheNetworkMetrics: an empty object, and traffic
\* in Mbps above twice the normal traffic
NetworkMetrics ==
    {[currentTraffic |-> Undefined, normalTraffic |-> Undefined, networkHealth |-> Undefined],
     [currentTraffic |-> "1200", normalTraffic |-> "450", networkHealth |-> "94.2"]}
\* the number a decimal text denotes
Number(x) == CASE x = "1200" -> 1200 [] x = "450" -> 450
\* line 212: a comparison with undefined or NaN is false
TrafficSpike(metrics) ==
    /\ metrics.currentTraffic # Undefined
    /\ metrics.normalTraffic # Undefined
    /\ Number(metrics.currentTraffic) > Number(metrics.normalTraffic) * 2
\* lines 208-214
NetworkData(metrics) ==
    [currentTraffic |-> Or(metrics.currentTraffic, "1.2Gbps"),
     normalTraffic |-> Or(metrics.normalTraffic, "450Mbps"),
     networkHealth |-> Or(metrics.networkHealth, "94.2"),
     trafficSpike |-> IF TrafficSpike(metrics) THEN "true" ELSE "false",
     lastUpdated |-> Now]
\* lines 207-217
CacheNetworkMetrics(p, metrics) ==
    FacadeWrite(p, "cacheNetworkMetrics", NETWORK_TRAFFIC, TTL_NETWORK_DATA,
                StringifyObject(NetworkData(metrics)), metrics)

\* the prediction handed to cacheMLPrediction; it carries no analysis
Predictions ==
    {[confidence |-> "0.95", model |-> "xgboost", fraudType |-> "simbox",
      riskScore |-> "87", analysis |-> Undefined]}
\* lines 226-234
PredictionData(alertId, prediction) ==
    [alertId |-> alertId, confidence |-> prediction.confidence,
     modelUsed |-> prediction.model, fraudType |-> prediction.fraudType,
     riskScore |-> prediction.riskScore, aiAnalysis |-> prediction.analysis,
     timestamp |-> Now]
\* lines 225-241
CacheMLPrediction(p, alertId, prediction) ==
    FacadeWrite(p, "cacheMLPrediction", MODEL_CONFIDENCE(alertId), TTL_ML_PREDICTIONS,
                StringifyObject(PredictionData(alertId, prediction)),
                <<alertId, prediction>>)

\* the correlations handed to cacheCorrelationResults: one row that leaves
\* linked_threats out
Correlations ==
    {<<[correlation_id |-> "C-2024-001", confidence_score |-> "94",
        linked_threats |-> Undefined, campaign_type |-> "SIM-Box + DDoS",
        time_span_minutes |-> "30", geographic_correlation |-> "0.8",
        technical_correlation |-> "0.9"]>>}
\* lines 250-258
CorrelationData(correlations) ==
    [i \in 1..Len(correlations) |->
        [id |-> correlations[i].correlation_id,
         confidence |-> correlations[i].confidence_score,
         linkedThreats |-> Or(correlations[i].linked_threats, "3"),
         campaignType |-> correlations[i].campaign_type,
         timeSpan |-> Or(correlations[i].time_span_minutes, "47"),
         geographicCorrelation |-> correlations[i].geographic_correlation,
         technicalCorrelation |-> correlations[i].technical_correlation]]
\* lines 249-261
CacheCorrelationResults(p, correlations) ==
    FacadeWrite(p, "cacheCorrelationResults", CORRELATION_RESULTS, TTL_ML_PREDICTIONS,
                StringifyList(CorrelationData(correlations)), correlations)

\* the components handed to cacheSystemComponents
Components ==
    {<<[component_name |-> "AI Correlation Engine", status |-> "online",
        uptime_percentage |-> "99.7", last_health_check |-> Now]>>}
\* lines 270-275
SystemData(components) ==
    [i \in 1..Len(components) |->
        [name |-> components[i].component_name, status |-> components[i].status,
         uptime |-> components[i].uptime_percentage,
         lastCheck |-> components[i].last_health_check]]
\* lines 269-278
CacheSystemComponents(p, components) ==
    FacadeWrite(p, "cacheSystemComponents", SYSTEM_COMPONENTS, TTL_SYSTEM_STATS,
                StringifyList(SystemData(components)), components)

\* ------------------------------------------------------------------ clearCache
\* the patterns handed to clearCache
Patterns == {"cybercell:investigation:*", "cybercell:fraud:*"}

\* redis KEYS glob: a pattern that ends in `*` matches the keys that begin
\* with the text before it; a pattern without wildcard matches itself
Matches(pattern, key) ==
    LET n == Len(pattern)
    IN  IF n > 0 /\ SubSeq(pattern, n, n) = "*"
        THEN Len(key) >= n - 1 /\ SubSeq(key, 1, n - 1) = SubSeq(pattern, 1, n - 1)
        ELSE key = pattern

\* redis.keys(pattern): the existing keys that match
Keys(s, pattern) == {k \in DOMAIN s : s[k].has /\ Matches(pattern, k)}

\* redis.del(...keys): the named keys are removed; the reply is the number
\* of them that existed
DelEverything(s, keys) == [k \in DOMAIN s |-> Absent]
Del(s, keys) == [k \in DOMAIN s |-> IF k \in keys THEN Absent ELSE s[k]]
DelReply(s, keys) == Cardinality({k \in keys : s[k].has})

\* line 350: return keys.length
ClearCount(keys) == Cardinality(keys)

\* lines 346-347: the awaited KEYS; with no match the call returns 0
ClearKeys(p, pattern) ==
    /\ pc[p] = "idle"
    /\ pend = <<>>
    /\ \E up \in BOOLEAN :
        LET keys == Keys(store, pattern)
        IN  IF ~up
            THEN /\ ret' = Thrown("clearCache", "store")
                 /\ UNCHANGED <<pc, cc, cch>>
            ELSE IF keys = {}
            THEN /\ ret' = ReturnedJson("clearCache", ClearCount(keys))
                 /\ cch' = [pattern |-> pattern, removed |-> 0]
                 /\ UNCHANGED <<pc, cc>>
            ELSE /\ pc' = [pc EXCEPT ![p] = "del"]
                 /\ cc' = [cc EXCEPT ![p] = [pattern |-> pattern, keys |-> keys]]
                 /\ UNCHANGED <<ret, cch>>
    /\ UNCHANGED <<store, rl, caa, win, age, al, mwVars, dm, lw, due>>

\* lines 348-350: the awaited DEL of the enumerated keys, then the return
ClearDel(p) ==
    /\ pc[p] = "del"
    /\ pend = <<>>
    /\ \E out \in {"ok", "fail", "lost"} :
        /\ store' = IF out = "fail" THEN store ELSE Del(store, cc[p].keys)
        /\ lw' = IF out = "fail" THEN lw ELSE Kept(cc[p].keys)
        /\ mwh' = IF out = "fail" THEN mwh
                  ELSE [mwh EXCEPT !.prev =
                          [k \in HttpKeys |-> IF k \in cc[p].keys THEN NoPrev ELSE @[k]]]
        /\ ret' = IF out = "ok" THEN ReturnedJson("clearCache", ClearCount(cc[p].keys))
                  ELSE Thrown("clearCache", "store")
        /\ cch' = IF out = "ok"
                  THEN [pattern |-> cc[p].pattern, removed |-> DelReply(store, cc[p].keys)]
                  ELSE cch
    /\ pc' = [pc EXCEPT ![p] = "idle"]
    /\ cc' = [cc EXCEPT ![p] = NoClear]
    /\ UNCHANGED <<rl, caa, win, age, al, mw, pend, dm, due>>

\* ------------------------------------------------------------------ cacheMiddleware
\* what a downstream handler answers: the status code it sets with
\* res.status and the data it passes to res.json; a handler may answer the
\* same request differently each time it runs
Responses == {[status |-> 200, data |-> "v1"], [status |-> 500, data |-> "failed"]}
\* res.statusCode of a response whose handler has set none
StatusOk == 200
\* the body a handler builds for a request: the data, and the route it serves
Body(req, r) == [data |-> r.data, route |-> req.method \o " " \o req.url]

\* line 371: the ttl parameter of the factory defaults to TTL.DASHBOARD
NoArg == -1
cacheMiddlewareAlertsTier(ttl) == IF ttl = NoArg THEN TTL_ALERTS ELSE ttl
cacheMiddleware(ttl) == IF ttl = NoArg THEN TTL_DASHBOARD ELSE ttl
\* the instance each route is mounted with: one made without an argument,
\* one made with the real-time tier
RouteTtl(originalUrl) ==
    IF originalUrl = "/alerts" THEN cacheMiddleware(NoArg)
    ELSE cacheMiddleware(TTL_REAL_TIME)

\* lines 376-379: the awaited GET and the test of `cached`.  A rejected GET
\* and a SyntaxError of JSON.parse both land in the catch block.
Lookup(s, key, up) ==
    IF ~up THEN "error"
    ELSE IF ~Truthy(Get(s, key)) THEN "miss"
    ELSE IF Parsable(Get(s, key).val) THEN "hit"
    ELSE "error"

\* lines 389 and 393: next() runs on a miss and in the catch block
CallsNextAlways(look) == TRUE
CallsNextOnMissOnly(look) == look = "miss"
CallsNext(look) == look \in {"miss", "error"}

\* lines 383-388: res.json is replaced on a miss, before next()
PatchesNever(look) == FALSE
Patches(look) == look = "miss"

\* lines 385-386: the replaced res.json sends the SETEX whatever the status
\* code of the response is
CachesSuccessOnly(status) == status < 400
Caches(status) == TRUE

\* the history after a request has been answered
Responded(h, req, body, cached, calls, status) ==
    [h EXCEPT !.done = [req |-> req, body |-> <<body>>, cached |-> cached,
                        calls |-> calls, status |-> status],
              !.prev = [@ EXCEPT ![req.key] =
                          [has |-> req.solo /\ req.look # "error",
                           body |-> <<body>>, calls |-> calls, status |-> status]]]

\* lines 377-379: the hit branch returns the parsed value and sends no
\* command
ServedRefreshes(s, key, ttl) == Expire(s, key, ttl)
Served(s, key, ttl) == s

\* lines 376-394: the GET has returned or failed; on a hit the cached body
\* is the response, otherwise the handler runs next
MwLookup(p, method, originalUrl) ==
    /\ pend = <<>>
    /\ \E up \in BOOLEAN :
        LET key == HTTP_KEY(method, originalUrl)
            look == Lookup(store, key, up)
            others == {q \in Procs : pc[q] = "handler" /\ mw[q].key = key}
            req == [method |-> method, url |-> originalUrl, key |-> key,
                    ttl |-> RouteTtl(originalUrl), look |-> look,
                    held |-> store[key].has, patched |-> Patches(look),
                    solo |-> others = {},
                    prev |-> IF others = {} THEN mwh.prev[key] ELSE NoPrev]
        IN  IF CallsNext(look)
            THEN /\ pc' = [pc EXCEPT ![p] = "handler"]
                 /\ mw' = [q \in Procs |->
                             IF q = p THEN req
                             ELSE IF q \in others THEN [mw[q] EXCEPT !.solo = FALSE]
                             ELSE mw[q]]
                 /\ mwh' = [mwh EXCEPT !.n = @ + 1]
                 /\ UNCHANGED <<ret, store>>
            ELSE /\ ret' = ReturnedJson("cacheMiddleware", Parse(store[key].val))
                 /\ store' = Served(store, key, req.ttl)
                 /\ mwh' = Responded([mwh EXCEPT !.n = @ + 1], req,
                                     Parse(store[key].val),
                                     <<Parse(store[key].val)>>, 0, StatusOk)
                 /\ pc' = [pc EXCEPT ![p] = "idle"]
                 /\ mw' = [mw EXCEPT ![p] = NoReq]
    /\ UNCHANGED <<rl, caa, win, age, al, pend, ccVars, dm, lw, due>>

\* lines 372-394 with the GET answered as soon as it is sent: the request
\* enters, the key is built and looked up
MwGet(p, method, originalUrl) ==
    /\ pc[p] = "idle"
    /\ mwh.n < MaxRequests
    /\ MwLookup(p, method, originalUrl)

\* lines 372-376: the request enters, the key is built and the GET is sent;
\* the request waits for the store
MwEnter(p, method, originalUrl) ==
    /\ pc[p] = "idle"
    /\ mwh.n + Cardinality({q \in Procs : pc[q] = "get"}) < MaxRequests
    /\ pc' = [pc EXCEPT ![p] = "get"]
    /\ mw' = [mw EXCEPT ![p] = [NoReq EXCEPT !.method = method, !.url = originalUrl,
                                             !.key = HTTP_KEY(method, originalUrl)]]
    /\ UNCHANGED <<store, rl, caa, ret, win, age, al, pend, mwh, ccVars, dm, lw, due>>

\* lines 376-394: the GET of a waiting request returns or fails
MwReply(p) ==
    /\ pc[p] = "get"
    /\ MwLookup(p, mw[p].method, mw[p].url)

\* lines 384-388: the handler sets the status and calls res.json(body); the
\* replaced res.json sends the SETEX without awaiting it and hands the body
\* to the original
MwHandler(p, r) ==
    /\ pc[p] = "handler"
    /\ pend' = IF mw[p].patched /\ Caches(r.status)
               THEN Append(pend, [key |-> mw[p].key, ttl |-> mw[p].ttl,
                                  val |-> Stringify(Body(mw[p], r))])
               ELSE pend
    /\ ret' = ReturnedJson("cacheMiddleware", Body(mw[p], r))
    /\ mwh' = Responded(mwh, mw[p], Body(mw[p], r), <<>>, 1, r.status)
    /\ pc' = [pc EXCEPT ![p] = "idle"]
    /\ mw' = [mw EXCEPT ![p] = NoReq]
    /\ UNCHANGED <<store, rl, caa, win, age, al, ccVars, dm, lw, due>>

\* line 386: the store runs the SETEX.  Its promise has no handler: when
\* the command fails, or its reply is lost, the rejection is unhandled.
MwWrite ==
    /\ pend # <<>>
    /\ \E out \in {"ok", "fail", "lost"} :
        LET w == Head(pend)
        IN  /\ store' = IF out = "fail" THEN store ELSE Setex(store, w.key, w.ttl, w.val)
            /\ age' = IF out = "fail" THEN age ELSE [age EXCEPT ![w.key] = 0]
            /\ due' = IF out = "fail" THEN due ELSE Tier(w.key, w.ttl)
            /\ lw' = IF out = "fail" THEN lw ELSE Kept({w.key})
            /\ mwh' = [mwh EXCEPT
                         !.write = IF out = "ok" THEN "ok" ELSE "rejected",
                         !.prev = IF out = "ok" THEN @
                                  ELSE [@ EXCEPT ![w.key] = NoPrev]]
    /\ pend' = Tail(pend)
    /\ UNCHANGED <<pc, rl, caa, ret, win, al, mw, ccVars, dm>>

\* ------------------------------------------------------------------ healthCheck
\* error.message of a rejected PING
PingError == "Connection is closed."
\* lines 355-360: the awaited PING answers or rejects, and the rejection is
\* caught; err records that the PING was rejected
HealthResultThrows(up) ==
    IF up
    THEN ReturnedJson("healthCheck",
                      [status |-> "healthy", error |-> Undefined, timestamp |-> Now])
    ELSE Thrown("healthCheck", "store")
HealthResult(up) ==
    IF up
    THEN ReturnedJson("healthCheck",
                      [status |-> "healthy", error |-> Undefined, timestamp |-> Now])
    ELSE [ReturnedJson("healthCheck",
                       [status |-> "unhealthy", error |-> PingError, timestamp |-> Now])
            EXCEPT !.err = "store"]
\* lines 354-361
HealthCheck(p) ==
    /\ pc[p] = "idle"
    /\ \E up \in BOOLEAN : ret' = HealthResult(up)
    /\ UNCHANGED <<store, pc, rl, caa, win, age, al, mwVars, ccVars, dm, lw, due>>

\* ------------------------------------------------------------------ key construction
\* one use of CACHE_KEYS: the key built for a category and an id
Built(category, id) ==
    [category |-> category, id |-> id, key |-> CACHE_KEYS(category, id)]
\* the keys built so far, the latest first; the last two are kept
LastBuilt == IF ret.op = "CACHE_KEYS" THEN <<ret.v[1][1]>> ELSE <<>>
BuildKey(category, id) ==
    /\ ret' = ReturnedJson("CACHE_KEYS", <<Built(category, id)>> \o LastBuilt)
    /\ UNCHANGED <<store, pc, rl, caa, win, age, al, mwVars, ccVars, dm, lw, due>>

\* ------------------------------------------------------------------ specifications
NextMw ==
    \/ \E p \in Procs, r \in Requests : MwGet(p, r[1], r[2])
    \/ \E p \in Procs, r \in Responses : MwHandler(p, r)
    \/ MwWrite
    \/ ForeignSet(HTTP_KEY("GET", "/alerts"))
    \/ Tick(TickStep)

SpecMw == Init /\ [][NextMw]_vars

\* the middleware with the wait for the GET as a state of the request.  A
\* sent command returns or fails (line 18: commandTimeout rejects the call
\* after 5000 ms), so the store's steps are weakly fair; nothing obliges a
\* client to send a request or a handler to respond
LiveRequests == {<<"GET", "/alerts">>, <<"POST", "/alerts">>}

NextMwFair ==
    \/ \E p \in Procs, r \in LiveRequests : MwEnter(p, r[1], r[2])
    \/ \E p \in Procs : MwReply(p)
    \/ \E p \in Procs, r \in Responses : MwHandler(p, r)
    \/ MwWrite
    \/ ForeignSet(HTTP_KEY("GET", "/alerts"))
    \/ Tick(TickStep)

SpecMwFair ==
    /\ Init
    /\ [][NextMwFair]_vars
    /\ WF_vars(MwWrite)
    /\ \A p \in Procs : WF_vars(MwReply(p))

\* clearCache beside writers of two categories; a clock step is the
\* investigation tier
NextClear ==
    \/ \E p \in Procs, i \in Investigations : CacheInvestigation(p, i)
    \/ \E p \in Procs, t \in Timelines : CacheFraudTimeline(p, t)
    \/ \E p \in Procs, pattern \in Patterns : ClearKeys(p, pattern)
    \/ \E p \in Procs : ClearDel(p)
    \/ Tick(TTL_INVESTIGATIONS)

SpecClear == Init /\ [][NextClear]_vars

\* writes and reads of three categories; a clock step is the session tier
NextFacade ==
    \/ \E p \in Procs, i \in EntityIds, d \in SessionData : CacheUserSession(p, i, d)
    \/ \E p \in Procs, t \in Timelines : CacheFraudTimeline(p, t)
    \/ \E p \in Procs, i \in Investigations : CacheInvestigation(p, i)
    \/ \E p \in Procs, i \in EntityIds : GetUserSession(p, i)
    \/ \E p \in Procs : GetFraudTimeline(p)
    \/ \E p \in Procs, i \in EntityIds : GetInvestigation(p, i)
    \/ Tick(TTL_SESSION)

SpecFacade == Init /\ [][NextFacade]_vars

\* cacheDashboardMetrics and getDashboardMetrics called by one process
NextDash ==
    \/ \E m \in MetricsObjects : CacheDashboardMetrics(1, m)
    \/ CacheMetric(1)
    \/ GetDashboardMetrics(1)
    \/ Tick(TickStep)

SpecDash == Init /\ [][NextDash]_vars

NextAlerts ==
    \/ \E p \in Procs, alerts \in AlertLists : CacheActiveAlerts(p, alerts)
    \/ \E p \in Procs : CacheCriticalAlerts(p)
    \/ \E p \in Procs : GetActiveAlerts(p)
    \/ \E p \in Procs : GetCriticalAlerts(p)
    \/ Tick(TickStep)

SpecAlerts == Init /\ [][NextAlerts]_vars

NextReads ==
    \/ \E p \in Procs : GetDashboardMetrics(p)
    \/ \E p \in Procs : GetActiveAlerts(p)
    \/ \E p \in Procs : GetCriticalAlerts(p)
    \/ \E p \in Procs : GetFraudStatistics(p)
    \/ \E p \in Procs : GetFraudTimeline(p)
    \/ \E p \in Procs : GetNetworkMetrics(p)
    \/ \E p \in Procs, i \in EntityIds : GetMLPrediction(p, i)
    \/ \E p \in Procs : GetCorrelationResults(p)
    \/ \E p \in Procs : GetSystemComponents(p)
    \/ \E p \in Procs, i \in EntityIds : GetInvestigation(p, i)
    \/ \E p \in Procs, i \in EntityIds : GetUserSession(p, i)
    \/ \E p \in Procs, i \in EntityIds, d \in SessionData : CacheUserSession(p, i, d)
    \/ \E k \in FacadeKeys : ForeignSet(k)

SpecReads == Init /\ [][NextReads]_vars

\* ------------------------------------------------------------------ claims: rate limiter

\* C1: in a window that began with the counter key absent, whose calls used
\* one limit L, did not overlap and met no store failure, the n-th call
\* returned true exactly when n <= L: the first L calls are allowed and call
\* L+1 is rejected; a window that begins after the key lapsed starts over.
C1_SequentialQuota ==
    \A ip \in Ips :
        (win[ip].seq /\ win[ip].ok /\ win[ip].same /\ win[ip].n >= 1)
            => (win[ip].last <=> win[ip].n <= win[ip].limit)

\* L calls allowed and call L+1 rejected, in a window that follows a lapse
C1_Witness ==
    \E ip \in Ips :
        /\ win[ip].renewed /\ win[ip].seq /\ win[ip].ok /\ win[ip].same
        /\ win[ip].n = win[ip].limit + 1
        /\ win[ip].allowed = win[ip].limit
        /\ ~win[ip].last

\* C2: more calls than the limit are allowed in one window only when calls
\* for the identifier overlapped (a GET of one call fell between the GET and
\* the MULTI of another); the witness shows that such a window is reachable.
C2_OvershootOnlyByOverlap ==
    \A ip \in Ips :
        (win[ip].ok /\ win[ip].same /\ win[ip].allowed > win[ip].limit)
            => ~win[ip].seq

\* two overlapping calls were both allowed past the limit
C2_Witness ==
    \E ip \in Ips :
        /\ win[ip].ok /\ win[ip].same
        /\ win[ip].allowed > win[ip].limit
        /\ Count(store, ip) > win[ip].limit
        /\ ret = ReturnedBool("checkRateLimit", TRUE)

C4_FixedWindow ==
    \A ip \in Ips :
        store[RATE_LIMIT(ip)].has => store[RATE_LIMIT(ip)].ttl = win[ip].left

\* C5: a rate-limit counter key that exists has a time-to-live, in every
\* state and under every interleaving of the calls.
C5_CounterHasExpiry ==
    \A k \in RateKeys :
        store[k].has => (store[k].ttl # NoTTL /\ store[k].ttl > 0)

\* a counter incremented by one call while another call is between its GET
\* and its MULTI
C5_Witness ==
    \E ip \in Ips :
        /\ store[RATE_LIMIT(ip)].has
        /\ InFlight(ip) # {}
        /\ ret = ReturnedBool("checkRateLimit", TRUE)

\* C6 as stated: a checkRateLimit call that met a store failure reports the
\* request as allowed and raises no error.
C6_FailOpen ==
    (ret.op = "checkRateLimit" /\ ret.err = "store")
        => (ret.kind = "bool" /\ ret.b)

\* ------------------------------------------------------------------ claims: alerts
Elements(list) == {list[i] : i \in 1..Len(list)}
HasSeverityCritical(a) == a.severity = "critical"
CriticalEntry == Parse(store[CRITICAL_ALERTS].val)

\* C7 as stated: in every state every element of the critical-alerts entry
\* has severity 'critical' and appears in the most recently written
\* active-alerts list.
C7_CriticalWithinLatestActive ==
    store[CRITICAL_ALERTS].has =>
        \A a \in Elements(CriticalEntry) :
            HasSeverityCritical(a) /\ a \in Elements(al.lastActive)

\* C7 amended: in every state every element of the critical-alerts entry
\* has severity 'critical'; it appears in the most recently written
\* active-alerts list whenever the latest write of either key was made by
\* one and the same cacheActiveAlerts call.
C7_CriticalWithinActiveOfSameCall ==
    store[CRITICAL_ALERTS].has =>
        \A a \in Elements(CriticalEntry) :
            /\ HasSeverityCritical(a)
            /\ al.sync => a \in Elements(al.lastActive)

\* a call wrote a mixed list and then its critical subset
C7_Witness ==
    /\ store[CRITICAL_ALERTS].has
    /\ al.sync
    /\ Len(CriticalEntry) = 1
    /\ Len(al.lastActive) = 2

\* C8: after a cacheActiveAlerts call whose two writes are the latest of
\* either key, getCriticalAlerts returns exactly the critical elements of
\* the list while less than 30 s have passed since the critical write; from
\* 30 s on, and while less than 300 s have passed since the active write,
\* getCriticalAlerts returns [] and getActiveAlerts returns the whole list.
C8_CriticalLapsesFirst ==
    al.sync =>
        /\ age[CRITICAL_ALERTS] < TTL_REAL_TIME =>
                getCriticalAlerts(store) =
                    ReturnedJson("getCriticalAlerts",
                                 SelectSeq(al.lastActive, HasSeverityCritical))
        /\ (age[CRITICAL_ALERTS] >= TTL_REAL_TIME /\ age[ACTIVE_ALERTS] < TTL_ALERTS) =>
                /\ getCriticalAlerts(store) = EmptyList("getCriticalAlerts")
                /\ getActiveAlerts(store) = ReturnedJson("getActiveAlerts", al.lastActive)

\* 30 s after a call that cached a critical alert, getCriticalAlerts has
\* answered [] while the active-alerts entry is still there
C8_Witness ==
    /\ al.sync
    /\ age[CRITICAL_ALERTS] >= TTL_REAL_TIME
    /\ age[ACTIVE_ALERTS] < TTL_ALERTS
    /\ Len(SelectSeq(al.lastActive, HasSeverityCritical)) = 1
    /\ ret = EmptyList("getCriticalAlerts")
    /\ store[ACTIVE_ALERTS].has

\* ------------------------------------------------------------------ claims: reads

\* C9 as stated: a facade read whose GET was rejected by the store returns
\* its absent result and raises no error.
C9_ReadsFailOpen ==
    (ret.op \in ReadOps /\ ret.err = "store")
        => (ret.kind # "throw" /\ [ret EXCEPT !.err = ""] = AbsentResult(ret.op))

\* C10 as stated: a facade read that finds a value it cannot deserialize
\* returns its absent result and raises no error.
C10_MalformedIsAbsence ==
    (ret.op \in ReadOps /\ ret.err = "parse")
        => (ret.kind # "throw" /\ [ret EXCEPT !.err = ""] = AbsentResult(ret.op))

\* ------------------------------------------------------------------ claims: cacheMiddleware

\* C11: when a request for a key begins after the previous request for the
\* same key was answered, no other request for the key is in flight with
\* either, the entry did not lapse and was not changed from outside in
\* between and no store command of the two failed, then both get the
\* same body and the handler ran at most once for the two.
C11_ConsecutiveRequestsIdempotent ==
    LET d == mwh.done
    IN  (d.req.prev.has /\ d.req.solo /\ d.req.look # "error")
            => (d.body = d.req.prev.body /\ d.req.prev.calls + d.calls <= 1)

\* a miss answered by the handler, then a hit answered with the same body
C11_Witness ==
    LET d == mwh.done
    IN  /\ d.req.prev.has /\ d.req.solo
        /\ d.req.look = "hit"
        /\ d.req.prev.calls = 1 /\ d.calls = 0
        /\ d.body = d.req.prev.body
        /\ ret = ReturnedJson("cacheMiddleware", d.body[1])

\* C12 as stated: the handler runs only for a request whose key the store
\* held no entry for, and a request whose key the store held an entry for
\* is answered with the cached body without the handler.
C12_HandlerOnlyWhenNoEntry ==
    /\ \A p \in Procs : pc[p] = "handler" => ~mw[p].held
    /\ mwh.done.req.held => (mwh.done.calls = 0 /\ mwh.done.body = mwh.done.cached)

\* C12 amended: the handler runs only for a request whose lookup yielded no
\* usable entry (the store held no entry for the key, or the GET was
\* rejected or the cached value could not be parsed); a request whose
\* lookup was a hit is answered with the cached body without the handler.
C12_HandlerOnlyWithoutUsableEntry ==
    /\ \A p \in Procs :
          pc[p] = "handler" =>
              \/ mw[p].look = "miss" /\ ~mw[p].held
              \/ mw[p].look = "error"
    /\ mwh.done.calls = 1 => mwh.done.req.look \in {"miss", "error"}
    /\ mwh.done.req.look = "hit" =>
          /\ mwh.done.req.held
          /\ mwh.done.calls = 0
          /\ mwh.done.body = mwh.done.cached

\* a hit was answered with the cached body and the handler did not run
C12_Witness ==
    /\ mwh.done.req.look = "hit"
    /\ mwh.done.req.held
    /\ mwh.done.calls = 0
    /\ ret = ReturnedJson("cacheMiddleware", mwh.done.cached[1])
    /\ \A p \in Procs : pc[p] = "idle"

\* C13: a request that missed is answered by the handler with exactly the
\* body the handler produced, and once its SETEX has run the store holds
\* that body under cybercell:http:<method>:<originalUrl> with the
\* time-to-live of the route's instance, 60 s where none was configured
\* (as long as no time has passed and nothing outside has replaced it).
C13_MissCachesHandlerBody ==
    LET d == mwh.done
    IN  (/\ d.req.look = "miss" /\ pend = <<>> /\ mwh.write = "ok"
         /\ age[d.req.key] = 0 /\ d.req.key \notin Foreign(store))
            => /\ d.calls = 1
               /\ ret = ReturnedJson("cacheMiddleware", d.body[1])
               /\ d.req.key = "cybercell:http:" \o d.req.method \o ":" \o d.req.url
               /\ store[d.req.key].has
               /\ Parse(store[d.req.key].val) = d.body[1]
               /\ store[d.req.key].ttl =
                      IF d.req.url = "/alerts" THEN TTL_DASHBOARD ELSE TTL_REAL_TIME

\* a miss on the route without a configured ttl, answered and cached
C13_Witness ==
    /\ mwh.done.req.look = "miss"
    /\ mwh.done.req.url = "/alerts"
    /\ pend = <<>>
    /\ mwh.write = "ok"
    /\ store[mwh.done.req.key] = Entry(JsonStr(mwh.done.body[1]), TTL_DASHBOARD)

\* C14 as stated: a failed cache write of cacheMiddleware is caught where
\* it was sent: no SETEX of the middleware ends as a rejection that nobody
\* handles.
C14_WriteFailureSwallowed == mwh.write # "rejected"

\* C15: a request whose lookup failed (the GET was rejected, or the cached
\* value could not be parsed) goes on to the handler like a miss: it is
\* never answered from the cache or dropped, the handler runs once for
\* it and the client gets the handler's body.
C15_LookupFailureIsMiss ==
    /\ \A p \in Procs : mw[p].look = "error" => pc[p] = "handler"
    /\ mwh.done.req.look = "error" =>
          /\ mwh.done.calls = 1
          /\ mwh.done.cached = <<>>
          /\ ret = ReturnedJson("cacheMiddleware", mwh.done.body[1])

\* a request for a key that holds unparsable text was answered by the handler
C15_Witness ==
    /\ mwh.done.req.look = "error"
    /\ mwh.done.req.held
    /\ mwh.done.req.key \in Foreign(store)
    /\ mwh.done.calls = 1
    /\ ret = ReturnedJson("cacheMiddleware", mwh.done.body[1])

\* ------------------------------------------------------------------ claims: clearCache

\* C16: no step of clearCache(pattern) changes a key that does not match
\* the pattern: the enumeration changes nothing, and across the DEL every
\* non-matching key keeps its value and its remaining time-to-live.
C16_ClearLeavesOtherKeys ==
    [][\A p \in Procs :
          /\ (pc[p] = "idle" /\ pc'[p] = "del") => store' = store
          /\ (pc[p] = "del" /\ pc'[p] = "idle") =>
                \A k \in AllKeys :
                    ~Matches(cc[p].pattern, k) => store'[k] = store[k]]_vars

\* a clearCache of the investigation pattern removed a key and the fraud
\* timeline is still cached
C16_Witness ==
    /\ ret.op = "clearCache" /\ ret.kind = "json"
    /\ cch.pattern = "cybercell:investigation:*"
    /\ cch.removed >= 1
    /\ store[FRAUD_TIMELINE].has
    /\ \A i \in EntityIds : ~store[INVESTIGATION_DETAILS(i)].has

\* C17 as stated: the number a clearCache call returns is the number of
\* keys its DEL removed.
C17_ReturnsRemovedCount ==
    (ret.op = "clearCache" /\ ret.kind = "json") => ret.v[1] = cch.removed

\* ------------------------------------------------------------------ claims: expiry and round trips

\* C18: once the tier duration of the last facade write of a key has
\* elapsed with no further write to the key, the read of the key returns
\* its absent result: null for a session or an investigation, [] for the
\* fraud timeline.
C18_AbsentAfterTier ==
    /\ \A u \in EntityIds :
          due[USER_SESSION(u)] = 0 =>
              getUserSession(store, u) = ReturnedNull("getUserSession")
    /\ due[FRAUD_TIMELINE] = 0 =>
          getFraudTimeline(store) = EmptyList("getFraudTimeline")
    /\ \A i \in EntityIds :
          due[INVESTIGATION_DETAILS(i)] = 0 =>
              getInvestigation(store, i) = ReturnedNull("getInvestigation")

\* a session was cached, its tier ran out and getUserSession answered null
C18_Witness ==
    /\ \E u \in EntityIds : due[USER_SESSION(u)] = 0
    /\ ret = ReturnedNull("getUserSession")
    /\ lw = NoWrite

Supplies(metrics) ==
    /\ metrics.activeThreats # Undefined
    /\ metrics.revenueAtRisk # Undefined
    /\ metrics.networkHealth # Undefined
    /\ metrics.slaStatus # Undefined
C20_SuppliedValuesKept ==
    (lw.op = "cacheDashboardMetrics" /\ Supplies(lw.x[1])) =>
        LET r == getDashboardMetrics(store)
        IN  /\ r.kind = "json"
            /\ r.v[1].activeThreats = lw.x[1].activeThreats
            /\ r.v[1].revenueAtRisk = lw.x[1].revenueAtRisk
            /\ r.v[1].networkHealth = lw.x[1].networkHealth
            /\ r.v[1].slaStatus = lw.x[1].slaStatus

\* ------------------------------------------------------------------ specification of key construction
NextKeys == \E in \in KeyInputs : BuildKey(in[1], in[2])
SpecKeys == Init /\ [][NextKeys]_vars

\* ------------------------------------------------------------------ claims: keys
\* C21: key construction is deterministic and injective over (category, id):
\* two keys built are the same key exactly when they were built for the same
\* category and the same id, for every id including the empty string, ids
\* with a colon, and an id that was left out.
C21_KeysInjective ==
    (ret.op = "CACHE_KEYS" /\ Len(ret.v[1]) = 2) =>
        LET a == ret.v[1][1]
            b == ret.v[1][2]
        IN  (a.key = b.key) <=> (a.category = b.category /\ a.id = b.id)

\* ------------------------------------------------------------------ specification of the writers
\* Every write method and the rate limiter, called by one
\* process, one call after the other: a call starts when the entries of the
\* calls before it have lapsed, and a clock step is the longest tier.
Room == \A k \in AllKeys : ~store[k].has
NextTiers ==
    \/ Room /\ \E m \in MetricsObjects : CacheDashboardMetrics(1, m)
    \/ CacheMetric(1)
    \/ Room /\ CacheActiveAlerts(1, <<AlertRow("1", "critical")>>)
    \/ CacheCriticalAlerts(1)
    \/ Room /\ \E stats \in StatsObjects : CacheFraudStatistics(1, stats)
    \/ Room /\ \E timeline \in Timelines : CacheFraudTimeline(1, timeline)
    \/ Room /\ \E m \in NetworkMetrics : CacheNetworkMetrics(1, m)
    \/ Room /\ \E i \in EntityIds, pr \in Predictions : CacheMLPrediction(1, i, pr)
    \/ Room /\ \E c \in Correlations : CacheCorrelationResults(1, c)
    \/ Room /\ \E c \in Components : CacheSystemComponents(1, c)
    \/ Room /\ \E inv \in Investigations : CacheInvestigation(1, inv)
    \/ Room /\ \E i \in EntityIds, d \in SessionData : CacheUserSession(1, i, d)
    \/ Room /\ \E ip \in Ips : RateGet(1, ip, MaxLimit)
    \/ RateMulti(1)
    \/ Tick(TTL_SESSION)
SpecTiers == Init /\ [][NextTiers]_vars

\* ------------------------------------------------------------------ claims: tiers
\* the duration, in seconds, the specification gives the category of a key
C22_Seconds(k) ==
    CASE k = DASHBOARD_METRICS \/ k \in MetricKeys -> 60
      [] k = ACTIVE_ALERTS -> 300
      [] k = CRITICAL_ALERTS -> 30
      [] k = FRAUD_STATS -> 300
      [] k = FRAUD_TIMELINE -> 30
      [] k = NETWORK_TRAFFIC -> 60
      [] k \in {MODEL_CONFIDENCE(i) : i \in EntityIds} \/ k = CORRELATION_RESULTS -> 180
      [] k = SYSTEM_COMPONENTS -> 300
      [] k \in {INVESTIGATION_DETAILS(i) : i \in EntityIds} -> 600
      [] k \in {USER_SESSION(i) : i \in EntityIds} -> 3600
      [] k \in RateKeys -> 60

\* C22: every write of the facade stores its entry with the duration of the
\* entry's category and no other: an entry no time has passed over since
\* its write has exactly that many seconds left.
C22_WritesUseCategoryTier ==
    \A k \in FacadeKeys \cup MetricKeys \cup RateKeys :
        (store[k].has /\ age[k] = 0) => store[k].ttl = C22_Seconds(k)
\* one call of cacheActiveAlerts has just written both alert keys, each with
\* the duration of its own category
C22_Witness ==
    /\ store[ACTIVE_ALERTS].has /\ age[ACTIVE_ALERTS] = 0
    /\ store[CRITICAL_ALERTS].has /\ age[CRITICAL_ALERTS] = 0
    /\ store[ACTIVE_ALERTS].ttl # store[CRITICAL_ALERTS].ttl

\* ------------------------------------------------------------------ specification of the per-entity methods
\* the ids the callers pass to the per-entity methods: an id, or none
CallIds == {"1", Undefined}
NextEntity ==
    \/ \E i \in CallIds, pr \in Predictions : CacheMLPrediction(1, i, pr)
    \/ \E i \in CallIds : CacheInvestigation(1, InvestigationRow(i, "7"))
    \/ \E i \in CallIds, d \in SessionData : CacheUserSession(1, i, d)
    \/ \E i \in CallIds : GetMLPrediction(1, i)
    \/ \E i \in CallIds : GetInvestigation(1, i)
    \/ \E i \in CallIds : GetUserSession(1, i)
    \/ Tick(TTL_SESSION)
SpecEntity == Init /\ [][NextEntity]_vars

\* ------------------------------------------------------------------ claims: per-entity ids
\* C23: a call of a per-entity method (ML prediction, investigation,
\* session) whose id is left out is rejected before any store command is
\* issued: the store is unchanged, so it never holds an entry such a call
\* has written, and the latest write is never one without an id.
C23_OmittedIdRejected ==
    /\ \A k \in OmittedIdKeys : ~store[k].has
    /\ lw.op = "cacheUserSession" => lw.x[1] # Undefined
    /\ lw.op = "cacheMLPrediction" => lw.x[1][1] # Undefined
    /\ lw.op = "cacheInvestigation" => lw.x[1].investigation_id # Undefined

\* ------------------------------------------------------------------ specification of the expiring writes
\* Write methods of the facade (five commands, one command) and the
\* middleware, called by one process, one call after the other; a
\* clock step is the longest tier.
NextExpiry ==
    \/ Room /\ \E m \in MetricsObjects : CacheDashboardMetrics(1, m)
    \/ CacheMetric(1)
    \/ Room /\ \E i \in CallIds, d \in SessionData : CacheUserSession(1, i, d)
    \/ Room /\ MwGet(1, "GET", "/alerts")
    \/ \E r \in Responses : MwHandler(1, r)
    \/ MwWrite
    \/ Tick(TTL_SESSION)
SpecExpiry == Init /\ [][NextExpiry]_vars

\* ------------------------------------------------------------------ claims: expiry of written entries
\* C24: every entry written by a write method of the facade or by
\* cacheMiddleware has an expiry in every reachable state: no state shows
\* such a key with a value and no time-to-live.
C24_WrittenEntriesExpire ==
    \A k \in FacadeKeys \cup MetricKeys \cup HttpKeys \cup OmittedIdKeys :
        store[k].has => (store[k].ttl # NoTTL /\ store[k].ttl > 0)
\* the first of the five dashboard writes has happened and the second has
\* not
C24_Witness ==
    /\ store[DASHBOARD_METRICS].has
    /\ ~store[ACTIVE_THREATS_COUNT].has
    /\ pc[1] = "metric"

\* ------------------------------------------------------------------ claims: absent results
\* C25: the result a read returns on a miss differs from every result it
\* returns for a stored entry: while the critical-alerts (active-alerts)
\* key holds a list the facade wrote, getCriticalAlerts (getActiveAlerts)
\* does not return its absent result.
C25_AbsentResultDistinct ==
    /\ (store[CRITICAL_ALERTS].has /\ CRITICAL_ALERTS \notin Foreign(store)) =>
           getCriticalAlerts(store) # AbsentResult("getCriticalAlerts")
    /\ (store[ACTIVE_ALERTS].has /\ ACTIVE_ALERTS \notin Foreign(store)) =>
           getActiveAlerts(store) # AbsentResult("getActiveAlerts")

\* ------------------------------------------------------------------ claims: cached error responses
\* C26: cacheMiddleware stores the body passed to res.json whatever the
\* status code of the response is: once the SETEX of a missed request that
\* was answered with an error status has run, the store holds that body
\* under the request's key, and a later request for the key that hits is
\* answered with the error body without the handler.
C26_ErrorBodyCachedAndServed ==
    LET d == mwh.done
    IN  /\ (/\ d.req.look = "miss" /\ d.status >= 400 /\ pend = <<>>
             /\ mwh.write = "ok" /\ age[d.req.key] = 0
             /\ d.req.key \notin Foreign(store))
                => (store[d.req.key].has /\ Parse(store[d.req.key].val) = d.body[1])
        /\ (/\ d.req.look = "hit" /\ d.req.solo
             /\ d.req.prev.has /\ d.req.prev.status >= 400)
                => (d.calls = 0 /\ d.body = d.req.prev.body)

\* a request answered with status 500 by the handler, then a request for
\* the same key answered from the cache with the body of the first
C26_Witness ==
    LET d == mwh.done
    IN  /\ d.req.look = "hit" /\ d.req.solo
        /\ d.req.prev.has /\ d.req.prev.status = 500 /\ d.req.prev.calls = 1
        /\ d.calls = 0
        /\ d.body = d.req.prev.body
        /\ d.body[1].data = "failed"

\* ------------------------------------------------------------------ specification of healthCheck
\* healthCheck beside the session methods; a clock step is the session tier
NextHealth ==
    \/ \E p \in Procs : HealthCheck(p)
    \/ \E p \in Procs, i \in EntityIds, d \in SessionData : CacheUserSession(p, i, d)
    \/ \E p \in Procs, i \in EntityIds : GetUserSession(p, i)
    \/ Tick(TTL_SESSION)
SpecHealth == Init /\ [][NextHealth]_vars

\* ------------------------------------------------------------------ claims: healthCheck
\* C27: healthCheck never propagates an error: it returns status healthy
\* when the PING answers and status unhealthy with the error message when
\* the PING fails, and the call changes no stored entry.
C27_HealthCheckContained ==
    [][ret'.op = "healthCheck" =>
          /\ ret'.kind = "json"
          /\ ret'.err = "" =>
                (ret'.v[1].status = "healthy" /\ ret'.v[1].error = Undefined)
          /\ ret'.err # "" =>
                (ret'.v[1].status = "unhealthy" /\ ret'.v[1].error = PingError)
          /\ ret' # ret => store' = store]_vars

\* the PING failed while the store held a session, and healthCheck answered
\* unhealthy
C27_Witness ==
    /\ ret.op = "healthCheck" /\ ret.kind = "json" /\ ret.err = "store"
    /\ ret.v[1].status = "unhealthy"
    /\ \E i \in EntityIds : store[USER_SESSION(i)].has

\* ------------------------------------------------------------------ claims: overshoot of the rate limit
\* C28: with at most N = NumProcs calls of checkRateLimit for an identifier
\* in flight at once, all with one limit, the counter of the identifier is
\* at most limit + N - 1 in every reachable state; when the calls do not
\* overlap (N = 1) the counter never exceeds the limit.
C28_OvershootBounded ==
    \A ip \in Ips :
        (win[ip].same /\ win[ip].limit > 0) =>
            /\ Count(store, ip) <= win[ip].limit + NumProcs - 1
            /\ win[ip].seq => Count(store, ip) <= win[ip].limit

\* every process had its call in flight when the counter reached the limit:
\* the counter stands at limit + N - 1
C28_Witness ==
    \E ip \in Ips :
        /\ win[ip].same /\ win[ip].limit > 0 /\ win[ip].ok
        /\ Count(store, ip) = win[ip].limit + NumProcs - 1
        /\ InFlight(ip) = {}

\* ------------------------------------------------------------------ specification of two identifiers
\* checkRateLimit called for two identifiers with the smallest limit, the
\* calls for one identifier made by one process
NextPair ==
    \/ RateGet(1, "10.0.0.1", 1)
    \/ RateGet(2, "10.0.0.2", 1)
    \/ \E p \in {1, 2} : RateMulti(p)
    \/ Tick(TickStep)
SpecPair == Init /\ [][NextPair]_vars

\* ------------------------------------------------------------------ claims: independent identifiers
\* a step of a checkRateLimit call for the identifier: its GET passed the
\* test, its MULTI ran, or it was rejected
C29_CallStep(a) ==
    \/ \E p \in Procs : pc[p] = "idle" /\ pc'[p] = "multi" /\ rl'[p].ip = a
    \/ \E p \in Procs : pc[p] = "multi" /\ pc'[p] = "idle" /\ rl[p].ip = a
    \/ pc' = pc /\ win'[a].n = win[a].n + 1

\* C29: the rate-limit counters of different identifiers are independent: a
\* step of a call for A changes neither the counter nor the remaining
\* time-to-live of any other identifier B, and the call is let through or
\* rejected by A's own counter alone, whatever B's counter is.
C29_IdentifiersIndependent ==
    [][\A a \in AllIps :
          C29_CallStep(a) =>
              /\ \A b \in AllIps \ {a} :
                    store'[RATE_LIMIT(b)] = store[RATE_LIMIT(b)]
              /\ \A p \in Procs :
                    (pc[p] = "idle" /\ pc'[p] = "multi") =>
                        Count(store, a) < rl'[p].limit
              /\ (pc' = pc /\ win'[a].n = win[a].n + 1) =>
                        Count(store, a) >= 1]_vars

\* a call for one identifier was let through and started its window while
\* the counter of the other identifier stood at the limit, part of its
\* window gone
C29_Witness ==
    \E a \in AllIps : \E b \in AllIps \ {a} :
        /\ ret = ReturnedBool("checkRateLimit", TRUE)
        /\ store[RATE_LIMIT(a)] = Entry(IntStr(1), TTL_RATE_LIMIT)
        /\ age[RATE_LIMIT(a)] = 0
        /\ Count(store, b) >= 1
        /\ store[RATE_LIMIT(b)].ttl < TTL_RATE_LIMIT

\* ------------------------------------------------------------------ claims: isolation of cached bodies
\* C30: under every interleaving of the requests that pass through
\* cacheMiddleware, a body served from the cache for a method and a URL is
\* a body a handler built for that method and that URL; a request never
\* receives the cached body of a request with another method or URL.
C30_CachedBodyOfSameRequest ==
    LET d == mwh.done
    IN  d.req.look = "hit" =>
            /\ d.calls = 0
            /\ ret = ReturnedJson("cacheMiddleware", d.body[1])
            /\ d.body[1] \in {Body(d.req, r) : r \in Responses}
            /\ d.body[1].route = d.req.method \o " " \o d.req.url

\* a POST answered from the cache with the body a handler built for the
\* POST, on the URL that is also requested with GET
C30_Witness ==
    LET d == mwh.done
    IN  /\ d.req.look = "hit"
        /\ d.req.method = "POST" /\ d.req.url = "/alerts"
        /\ d.body[1].route = "POST /alerts"
        /\ ret = ReturnedJson("cacheMiddleware", d.body[1])

\* ------------------------------------------------------------------ claims: hits leave the entry alone
\* C31: a cache hit in cacheMiddleware performs no store write: the step
\* that answers a request from the cache changes no entry and sends no
\* command, and an entry the middleware wrote has, in every state, the
\* seconds left that remain of the tier of the write that stored it,
\* however many hits have followed.
C31_HitWritesNothing ==
    [][/\ (mwh'.n = mwh.n + 1 /\ mwh'.done.req.look = "hit" /\ pc' = pc)
             => (store' = store /\ pend' = pend)
       /\ \A k \in HttpKeys :
             (store'[k].has /\ k \notin Foreign(store'))
                 => store'[k].ttl = due'[k]]_vars

\* an entry has served a request from the cache, part of its tier has
\* passed, and its seconds left are those of the write that stored it
C31_Witness ==
    LET d == mwh.done
    IN  /\ d.req.look = "hit" /\ d.calls = 0
        /\ ret = ReturnedJson("cacheMiddleware", d.body[1])
        /\ store[d.req.key].has
        /\ store[d.req.key].ttl < d.req.ttl
        /\ store[d.req.key].ttl = due[d.req.key]
        /\ age[d.req.key] > 0

\* ------------------------------------------------------------------ claims: order of the alert writes
\* C32 as stated: whenever the critical-alerts entry is present the
\* active-alerts entry is present too (the specification has no clearCache
\* and every entry of the two keys is written by cacheActiveAlerts).
C32_CriticalImpliesActive ==
    store[CRITICAL_ALERTS].has => store[ACTIVE_ALERTS].has

\* a step wrote the critical-alerts key
C32_CriticalWritten ==
    /\ store'[CRITICAL_ALERTS].has
    /\ \/ ~store[CRITICAL_ALERTS].has
       \/ store'[CRITICAL_ALERTS].val # store[CRITICAL_ALERTS].val
       \/ store'[CRITICAL_ALERTS].ttl > store[CRITICAL_ALERTS].ttl
       \/ age'[CRITICAL_ALERTS] < age[CRITICAL_ALERTS]

\* C32 amended: the critical-alerts key is written only by the second
\* command of a cacheActiveAlerts call, which the call reaches only when its
\* active-alerts write succeeded: a call whose active-alerts write fails
\* leaves the critical-alerts key unchanged.  Whenever the critical-alerts
\* entry is present and its write came less than 270 s (the alerts tier
\* less the real-time tier) after the latest active-alerts write, the
\* active-alerts entry is present too.
C32_CriticalAfterActive ==
    [][/\ C32_CriticalWritten => \E p \in Procs : pc[p] = "critical" /\ pc'[p] = "idle"
       /\ (/\ store'[CRITICAL_ALERTS].has
            /\ age'[ACTIVE_ALERTS] - age'[CRITICAL_ALERTS] < TTL_ALERTS - TTL_REAL_TIME)
               => store'[ACTIVE_ALERTS].has]_vars

\* a call whose active-alerts write failed has thrown while the entries of
\* an earlier call are both present, the critical one written after the
\* active one
C32_Witness ==
    /\ ret = Thrown("cacheActiveAlerts", "store")
    /\ \A p \in Procs : pc[p] = "idle"
    /\ al.sync
    /\ store[CRITICAL_ALERTS].has /\ store[ACTIVE_ALERTS].has
    /\ age[ACTIVE_ALERTS] > age[CRITICAL_ALERTS]

\* C33: the request of p has its outcome: the handler has been invoked for
\* it, or it was answered from the cache without a handler call
C33_Outcome(p) ==
    \/ pc[p] = "handler"
    \/ /\ pc[p] = "idle"
       /\ mwh.done.req.look = "hit"
       /\ mwh.done.calls = 0

\* C33: when every sent store command returns or fails, a request that has
\* entered cacheMiddleware and waits for its GET is eventually answered from
\* the cache or has the handler invoked; the handler starts only for a
\* request that was waiting for its GET, that request is not answered from
\* the cache as well, and an answered request counts at most one handler
\* call
C33_AnsweredOrHandledOnce ==
    /\ \A p \in Procs : (pc[p] = "get") ~> C33_Outcome(p)
    /\ [][\A p \in Procs :
            /\ (pc'[p] = "handler" /\ pc[p] # "handler")
                  => (pc[p] = "get" /\ mwh'.done = mwh.done /\ ret' = ret)
            /\ (pc[p] = "get" /\ pc'[p] = "idle")
                  => (mwh'.done.req.look = "hit" /\ mwh'.done.calls = 0)
            /\ (pc[p] = "handler" /\ pc'[p] # "handler")
                  => (pc'[p] = "idle" /\ mwh'.done.calls = 1)]_vars
    /\ [](mwh.done.calls <= 1)

\* C33 witness: a request whose GET failed has the handler running while
\* another request still waits for its GET
C33_Witness ==
    \E p, q \in Procs :
        /\ pc[p] = "handler"
        /\ mw[p].look = "error"
        /\ mwh.n = 1
        /\ pc[q] = "get"
        /\ mw[q].key = mw[p].key

====
